---- MODULE Spec2Model ----
(***************************************************************************)
(* Model of api/generate-audit-pdf.py: the do_POST request handler, the    *)
(* six-page generate_pdf layout routine and the greedy word wrap           *)
(* (reportlab's simpleSplit) whose line count sizes every card.            *)
(*                                                                         *)
(* Vertical positions are kept in units of 1/27 point: LOGO_ASPECT is      *)
(* 551/1026 = 29/54, so every cursor value of the program is a whole       *)
(* number of such units.  Text widths are kept in tenths of a point: a     *)
(* Courier glyph is 0.6 * fontSize wide.                                   *)
(***************************************************************************)
EXTENDS Integers, Sequences, FiniteSets, TLC

\* ---------------------------------------------------------------- bounds
MaxProblemLines == 35   \* longest problem statement tried, in wrapped lines
MaxFieldLines == 45     \* longest business field tried, in wrapped lines
MaxTextLen == 4         \* longest free text tried by the wrap harness
MaxSfxLen == 2          \* longest extension appended to such a text

\* ------------------------------------------------------ program constants
U == 27                 \* vertical units per point
H == 792 * U            \* letter page height
W == 612                \* letter page width, points
ML == 70
MR == W - 70
CW == MR - ML
FLOOR == 60 * U         \* the literal 60 of every "if y - card_h < 60"

\* ------------------------------------------------------------ characters
SP == " "
NL == "\n"
QUOTE == "\""
GLYPH == "a"
IsSpace(ch) == ch \in {SP, NL}

RECURSIVE Rep(_, _)
Rep(ch, n) == IF n = 0 THEN <<>> ELSE <<ch>> \o Rep(ch, n - 1)

\* ' '.join(words)
RECURSIVE Join(_)
Join(words) ==
    IF Len(words) = 0 THEN <<>>
    ELSE IF Len(words) = 1 THEN words[1]
    ELSE words[1] \o <<SP>> \o Join(Tail(words))

\* a literal of the source, given by the lengths of its words
FromWords(lens) == Join([i \in 1..Len(lens) |-> Rep(GLYPH, lens[i])])

\* k one-glyph words, one per line of input
NLines(k) == [i \in 1..(2 * k - 1) |-> IF i % 2 = 1 THEN GLYPH ELSE NL]

\* --------------------------------------------------------------- wrapping
\* a set of positions in increasing order
RECURSIVE Sorted(_)
Sorted(S) ==
    IF S = {} THEN <<>>
    ELSE LET m == CHOOSE i \in S : \A j \in S : i <= j
         IN <<m>> \o Sorted(S \ {m})

\* str.split(): maximal runs of non-whitespace
SplitWS(s) ==
    LET starts == Sorted({i \in 1..Len(s) :
                            ~IsSpace(s[i]) /\ (i = 1 \/ IsSpace(s[i - 1]))})
        stops == Sorted({i \in 1..Len(s) :
                            ~IsSpace(s[i]) /\ (i = Len(s) \/ IsSpace(s[i + 1]))})
    IN [k \in 1..Len(starts) |-> SubSeq(s, starts[k], stops[k])]

\* str.split('\n'): every piece, empty ones included
SplitNL(s) ==
    LET cuts == Sorted({0, Len(s) + 1} \cup {i \in 1..Len(s) : s[i] = NL})
    IN [k \in 1..(Len(cuts) - 1) |-> SubSeq(s, cuts[k] + 1, cuts[k + 1] - 1)]

\* width of a Courier string, tenths of a point
stringWidth(text, fontSize) == Len(text) * 6 * fontSize

\* the first word of a line is always taken, however wide
TakesWord_NoForce(w, ws, lt, mW, O) == w + ws + lt <= mW
TakesWord(w, ws, lt, mW, O) == w + ws + lt <= mW \/ O = <<>>

\* reportlab _simpleSplit: the loop over the words of one paragraph
RECURSIVE SplitLoop(_, _, _, _, _, _, _)
SplitLoop(words, i, L, O, w, mW, fontSize) ==
    IF i > Len(words)
    THEN (IF O # <<>> THEN Append(L, Join(O)) ELSE L)
    ELSE LET t == words[i]
             ws == stringWidth(<<SP>>, fontSize)
             lt == stringWidth(t, fontSize)
         IN IF TakesWord(w, ws, lt, mW, O)
            THEN SplitLoop(words, i + 1, L, Append(O, t), w + ws + lt, mW, fontSize)
            ELSE SplitLoop(words, i + 1, Append(L, Join(O)), <<t>>, lt, mW, fontSize)

simpleSplitPara(txt, mW, fontSize) ==
    SplitLoop(SplitWS(txt), 1, <<>>, <<>>,
              0 - stringWidth(<<SP>>, fontSize), mW, fontSize)

RECURSIVE Flatten(_)
Flatten(ss) == IF Len(ss) = 0 THEN <<>> ELSE ss[1] \o Flatten(Tail(ss))

\* reportlab simpleSplit(text, "Courier", fontSize, maxWidth)
simpleSplit_lastOnly(text, fontSize, maxWidth) ==
    LET paras == SplitNL(text)
    IN simpleSplitPara(paras[Len(paras)], maxWidth, fontSize)
simpleSplit(text, fontSize, maxWidth) ==
    LET paras == SplitNL(text)
    IN Flatten([k \in 1..Len(paras) |-> simpleSplitPara(paras[k], maxWidth, fontSize)])

\* ----------------------------------------------------------------- layout
\* draw_logo returns h = w * LOGO_ASPECT (551/1026), here in units
draw_logo(w) == (w * 551 * U) \div 1026

\* header returns line_y - 30, line_y = H - 28 - logo_h - 8 with logo_w = 80
header(pg) == H - 28 * U - draw_logo(80) - 8 * U - 30 * U

\* the cursor each page starts from: line 117 on the cover, header elsewhere
PageTop(p) == IF p = 1 THEN H - 70 * U ELSE header(p)

PageOrder ==
    <<"cover", "problem", "opportunities", "roadmap", "why_us", "cta">>

\* the "y -= ..." statements of a page outside its cards, in source order
FixedDec_up(p) ==
    IF p = 1 THEN <<40 * U, draw_logo(140) + 50 * U, 45 * U,
                    35 * U, 35 * U, 30 * U, 0 - 16 * U>>
    ELSE IF p = 6 THEN <<draw_logo(160) + 50 * U, 34 * U, 24 * U, 30 * U, 35 * U,
                         (42 + 14) * U, (42 + 14) * U, (42 + 24) * U>>
    ELSE <<46 * U, 22 * U, 28 * U>>
FixedDec(p) ==
    IF p = 1 THEN <<40 * U, draw_logo(140) + 50 * U, 45 * U,
                    35 * U, 35 * U, 30 * U, 16 * U>>
    ELSE IF p = 6 THEN <<draw_logo(160) + 50 * U, 34 * U, 24 * U, 30 * U, 35 * U,
                         (42 + 14) * U, (42 + 14) * U, (42 + 24) * U>>
    ELSE <<46 * U, 22 * U, 28 * U>>

\* name.upper() is evaluated after the third decrement of the cover
NameAt == 3

\* wrap width of every card body, tenths of a point
WrapWidth == (CW - 30) * 10

\* problem card, lines 167-178
problem_card_h_tight(n) == (14 + n * 14) * U
problem_card_h(n) == (40 + n * 14) * U
ProblemBase == 42 * U
ProblemLine == 14 * U
ProblemGap == 14 * U
ProblemFont == 10

\* the card loops of pages 2..5: font size, line height, first baseline, gap
CardFont(p) == IF p = 2 THEN 9 ELSE 8
CardLine(p) == (IF p = 2 THEN 12 ELSE 11) * U
CardBase(p) == (CASE p = 2 -> 44 [] p = 3 -> 42 [] p = 4 -> 58 [] p = 5 -> 38) * U
CardGap(p) == (IF p = 2 THEN 12 ELSE 10) * U
card_h(p, n) ==
    (CASE p = 2 -> 38 * U + n * CardLine(p) + 14 * U
       [] p = 3 -> 34 * U + n * CardLine(p) + 10 * U
       [] p = 4 -> (18 + 22 + 14) * U + n * CardLine(p) + 18 * U
       [] p = 5 -> 30 * U + n * CardLine(p) + 10 * U)

\* "if y - card_h < 60: break"
Overflows_page(yy, h) == yy - h < 0
Overflows_cursorOnly(yy, h) == yy < FLOOR
Overflows(yy, h) == yy - h < FLOOR

\* the wrapped description of each card, as word lengths of the literals
Descs(p, field) ==
    CASE p = 2 -> << FromWords(<<2, 10, 5, 2, 3, 4, 7, 6, 6, 2, 6>>),
                     FromWords(<<2, 5, 2, 4, 7, 10, 4, 2, 5, 2, 7>>),
                     FromWords(<<3, 4, 5, 2, 7, 4, 6, 9, 3, 9>>) >>
      [] p = 3 -> << FromWords(<<4, 7, 8, 4>>) \o <<SP>> \o field \o <<SP>> \o
                       FromWords(<<9, 2, 8, 2, 5, 2, 7, 1, 11, 9, 10, 3, 7, 5, 2,
                                   4, 9, 2, 4, 4, 5, 4, 4, 10>>),
                     FromWords(<<12, 5, 9, 4, 7, 5, 2, 10, 4, 7, 6, 5, 2, 4, 3, 4,
                                 5, 6, 4, 4, 7, 3, 8, 3>>),
                     FromWords(<<4, 3, 4, 4, 2, 6, 2, 7, 6, 10, 4, 6, 6, 6, 5, 11,
                                 1, 3, 10, 10, 3, 6, 14>>),
                     FromWords(<<4, 4, 7, 1, 9, 9, 7, 8, 9, 3, 4, 6, 6, 7, 8, 6, 3,
                                 5, 3, 4, 10, 13>>) >>
      [] p = 4 -> << FromWords(<<5, 4, 7, 6, 3, 2, 4, 13, 5, 4, 2, 8, 7, 6, 3, 7, 4, 3, 4>>),
                     FromWords(<<7, 4, 9, 1, 4, 8, 9, 10, 7, 9, 10, 4, 7, 6, 6>>),
                     FromWords(<<7, 6, 8, 6, 10, 3, 8, 9, 5, 4, 9, 3, 4, 8>>),
                     FromWords(<<7, 13, 3, 11, 2, 5, 7, 8, 8, 4, 7, 3, 7, 4, 5>>) >>
      [] p = 5 -> << FromWords(<<4, 8, 4, 3, 1, 7, 3, 10, 2, 5, 3, 2, 7, 12, 3, 9,
                                 4, 8, 4, 4, 9>>),
                     FromWords(<<5, 8, 9, 2, 4, 3, 6, 3, 3, 6, 2, 1, 5, 4, 3, 4, 2,
                                 3, 4, 8, 9>>),
                     FromWords(<<3, 6, 8, 5, 10, 7, 6, 3, 5, 1, 6, 2, 7, 9, 4, 7, 2, 5>>),
                     FromWords(<<2, 7, 8, 11, 9, 4, 7, 8, 10, 1, 3, 4, 3, 4, 4, 11,
                                 3, 2, 9>>),
                     FromWords(<<2, 6, 8, 10, 2, 6, 3, 4, 2, 3, 4, 4, 2, 5, 2, 9, 3, 4>>) >>
NCards(p) == CASE p = 2 -> 3 [] p = 3 -> 4 [] p = 4 -> 4 [] p = 5 -> 5 [] OTHER -> 0

\* line count of card i of page p
DescLines(p, i, field) == Len(simpleSplit(Descs(p, field)[i], CardFont(p), WrapWidth))

\* f'"{problem}"' wrapped for the problem card
problem_lines(problem, maxWidth) ==
    simpleSplit(<<QUOTE>> \o problem \o <<QUOTE>>, ProblemFont, maxWidth)

\* ------------------------------------------------------------------ state
VARIABLES
    req,        \* the POST body: its JSON kind and, for an object, its keys
    pc,         \* position of do_POST
    exc,        \* where an exception was raised, "none" if nowhere
    tmp,        \* the NamedTemporaryFile: "none", "exists", "removed"
    status,     \* status line put on the wire, 0 if none
    respBody,   \* JSON body put on the wire: "none", "error", "pdf"
    page,       \* page generate_pdf is building, 1..6
    gpc,        \* position of generate_pdf within the page
    step,       \* how many fixed "y -= ..." statements of the page have run
    ci,         \* index of the next card of the page's loop
    y,          \* the vertical cursor
    pages,      \* pages emitted by showPage, in order
    cards,      \* cards drawn so far
    ends,       \* how each card loop ended
    wtext,      \* wrap harness: a text
    wsfx,       \* wrap harness: characters appended to it
    wwidth,     \* wrap harness: maxWidth
    wpc,        \* wrap harness: position
    wlines,     \* wrap harness: simpleSplit(wtext)
    wre,        \* wrap harness: every line of wlines wrapped again
    wh          \* wrap harness: card heights of wtext and of wtext + wsfx

vars == <<req, pc, exc, tmp, status, respBody, page, gpc, step, ci, y, pages,
          cards, ends, wtext, wsfx, wwidth, wpc, wlines, wre, wh>>
handlerVars == <<req, pc, exc, tmp, status, respBody>>
genVars == <<page, gpc, step, ci, y, pages, cards, ends>>
wrapVars == <<wtext, wsfx, wwidth, wpc, wlines, wre, wh>>

\* ----------------------------------------------------------------- inputs
Absent == [kind |-> "absent", val |-> <<>>]
Str(t) == [kind |-> "str", val |-> t]
Num == [kind |-> "num", val |-> <<>>]      \* a non-zero JSON number

FieldLineChoices ==
    {k \in 1..MaxFieldLines : k = 1 \/ (k >= 24 /\ k % 8 = 0) \/ k = MaxFieldLines}
ProblemLineChoices == {k \in 1..MaxProblemLines : k <= 2 \/ k >= 27 \/ k % 6 = 5}
ProblemTexts ==
    {NLines(k) : k \in ProblemLineChoices}
        \cup {FromWords(<<40, 40>>), Rep(GLYPH, 82)}
FieldTexts == {NLines(k) : k \in FieldLineChoices}

Bodies ==
    [name    : {Absent, Str(<<>>), Num, Str(<<GLYPH, GLYPH>>)},
     email   : {Absent, Str(<<>>), Str(<<GLYPH>>)},
     field   : {Absent, Str(<<>>)} \cup {Str(t) : t \in FieldTexts},
     website : {Absent, Str(<<>>), Str(<<GLYPH>>)},
     problem : {Absent, Str(<<>>)} \cup {Str(t) : t \in ProblemTexts}]

NoBody == [name |-> Absent, email |-> Absent, field |-> Absent,
           website |-> Absent, problem |-> Absent]

Requests ==
    {[kind |-> "object", body |-> b] : b \in Bodies}
        \cup {[kind |-> k, body |-> NoBody] : k \in {"array", "malformed"}}

\* body.get(key, '')
Get(key) == IF req.body[key].kind = "absent" THEN Str(<<>>) ELSE req.body[key]

\* truth value of a Python str or non-zero number
Truthy(v) == v.kind = "num" \/ (v.kind = "str" /\ Len(v.val) > 0)

\* all([name, email, field, problem])
AllRequired_web ==
    \A k \in {"name", "email", "field", "problem", "website"} : Truthy(Get(k))
AllRequired == \A k \in {"name", "email", "field", "problem"} : Truthy(Get(k))

\* ------------------------------------------------------------------- Init
WrapOff ==
    /\ wtext = <<>> /\ wsfx = <<>> /\ wwidth = 0 /\ wpc = "off"
    /\ wlines = <<>> /\ wre = <<>> /\ wh = <<>>

GenIdle ==
    /\ page = 0 /\ gpc = "idle" /\ step = 0 /\ ci = 0 /\ y = 0
    /\ pages = <<>> /\ cards = <<>> /\ ends = <<>>

Init ==
    /\ req \in Requests
    /\ pc = "start" /\ exc = "none" /\ tmp = "none"
    /\ status = 0 /\ respBody = "none"
    /\ GenIdle
    /\ WrapOff

\* ----------------------------------------------------------------- do_POST
\* lines 381-389
Parse ==
    /\ pc = "start" /\ req.kind = "object"
    /\ pc' = "validate"
    /\ UNCHANGED <<req, exc, tmp, status, respBody>>
    /\ UNCHANGED genVars /\ UNCHANGED wrapVars

\* json.loads raises on a malformed body, body.get on a non-object
ParseRaises ==
    /\ pc = "start" /\ req.kind # "object"
    /\ pc' = "raised" /\ exc' = "parse"
    /\ UNCHANGED <<req, tmp, status, respBody>>
    /\ UNCHANGED genVars /\ UNCHANGED wrapVars

\* lines 391-396
Reject ==
    /\ pc = "validate" /\ ~AllRequired
    /\ status' = 400 /\ respBody' = "error"
    /\ pc' = "returned"
    /\ UNCHANGED <<req, exc, tmp>>
    /\ UNCHANGED genVars /\ UNCHANGED wrapVars

\* the same with the socket failing under end_headers or wfile.write
RejectRaises ==
    /\ pc = "validate" /\ ~AllRequired
    /\ status' \in {0, 400}
    /\ pc' = "raised" /\ exc' = "write"
    /\ UNCHANGED <<req, tmp, respBody>>
    /\ UNCHANGED genVars /\ UNCHANGED wrapVars

\* lines 399-403: the temporary file, then the call of generate_pdf
CreateTemp ==
    /\ pc = "validate" /\ AllRequired
    /\ tmp' = "exists"
    /\ pc' = "generate"
    /\ page' = 1 /\ gpc' = "start"
    /\ UNCHANGED <<req, exc, status, respBody, step, ci, y, pages, cards, ends>>
    /\ UNCHANGED wrapVars

\* an exception inside the try block runs the finally clause next
RaiseInTry(where) ==
    /\ pc' = "finally" /\ exc' = where

\* lines 404-406
ReadBack ==
    /\ pc = "read"
    /\ pc' = "respond"
    /\ UNCHANGED <<req, exc, tmp, status, respBody>>
    /\ UNCHANGED genVars /\ UNCHANGED wrapVars

ReadRaises ==
    /\ pc = "read"
    /\ RaiseInTry("read")
    /\ UNCHANGED <<req, tmp, status, respBody>>
    /\ UNCHANGED genVars /\ UNCHANGED wrapVars

\* lines 408-411
Respond ==
    /\ pc = "respond"
    /\ status' = 200 /\ respBody' = "pdf"
    /\ pc' = "finally"
    /\ UNCHANGED <<req, exc, tmp>>
    /\ UNCHANGED genVars /\ UNCHANGED wrapVars

RespondRaises ==
    /\ pc = "respond"
    /\ status' \in {0, 200}
    /\ RaiseInTry("write")
    /\ UNCHANGED <<req, tmp, respBody>>
    /\ UNCHANGED genVars /\ UNCHANGED wrapVars

\* lines 412-413: what the finally clause leaves of the file
Unlink_onSuccess(e) == IF e = "none" THEN "removed" ELSE "exists"
Unlink(e) == "removed"

Finally ==
    /\ pc = "finally"
    /\ tmp' = Unlink(exc)
    /\ pc' = IF exc = "none" THEN "returned" ELSE "raised"
    /\ UNCHANGED <<req, exc, status, respBody>>
    /\ UNCHANGED genVars /\ UNCHANGED wrapVars

\* ------------------------------------------------------------ generate_pdf
Generating == pc = "generate"

Card(p, i, top, h, n, base, lh) ==
    [page |-> p, idx |-> i, top |-> top, h |-> h, n |-> n,
     baselines |-> {top - base - k * lh : k \in 0..(n - 1)}]

\* what follows the k-th fixed decrement of page p
AfterFixed(p, k) ==
    IF p = 1 /\ k = NameAt THEN "name"
    ELSE IF k < Len(FixedDec(p)) THEN "fixed"
    ELSE IF p = 1 \/ p = 6 THEN "show"
    ELSE IF p = 2 THEN "problem"
    ELSE "cards"

\* where a card loop hands over: a break leaves the loop, not the function
AfterLoop_return(broke) == IF broke THEN "save" ELSE "show"
AfterLoop(broke) == "show"

\* bg, header, footer: lines 110-117, 154-156, 205-207, 242-244, 279-281, 317-319
PageStart ==
    /\ Generating /\ gpc = "start"
    /\ y' = PageTop(page)
    /\ step' = 0 /\ ci' = 1
    /\ gpc' = "fixed"
    /\ UNCHANGED <<page, pages, cards, ends>>
    /\ UNCHANGED handlerVars /\ UNCHANGED wrapVars

\* one "y -= <constant>" statement and the drawing that follows it
FixedStep ==
    /\ Generating /\ gpc = "fixed"
    /\ step < Len(FixedDec(page))
    /\ y' = y - FixedDec(page)[step + 1]
    /\ step' = step + 1
    /\ gpc' = AfterFixed(page, step + 1)
    /\ UNCHANGED <<page, ci, pages, cards, ends>>
    /\ UNCHANGED handlerVars /\ UNCHANGED wrapVars

\* line 134: name.upper() on a str
DrawName ==
    /\ Generating /\ gpc = "name"
    /\ Get("name").kind = "str"
    /\ gpc' = "fixed"
    /\ UNCHANGED <<page, step, ci, y, pages, cards, ends>>
    /\ UNCHANGED handlerVars /\ UNCHANGED wrapVars

\* line 134: a JSON number has no upper(), AttributeError
DrawNameRaises ==
    /\ Generating /\ gpc = "name"
    /\ Get("name").kind # "str"
    /\ RaiseInTry("generate")
    /\ UNCHANGED <<req, tmp, status, respBody>>
    /\ UNCHANGED genVars /\ UNCHANGED wrapVars

\* lines 167-178
ProblemCard ==
    /\ Generating /\ gpc = "problem"
    /\ LET n == Len(problem_lines(Get("problem").val, WrapWidth))
           h == problem_card_h(n)
       IN /\ cards' = Append(cards, Card(page, 0, y, h, n, ProblemBase, ProblemLine))
          /\ y' = y - (h + ProblemGap)
    /\ gpc' = "cards"
    /\ UNCHANGED <<page, step, ci, pages, ends>>
    /\ UNCHANGED handlerVars /\ UNCHANGED wrapVars

\* height of the card the loop of the current page is at
NextCardLines == DescLines(page, ci, Get("field").val)
NextCardH == card_h(page, NextCardLines)

\* one iteration that draws: lines 185-201, 225-238, 262-275, 300-313
DrawCard ==
    /\ Generating /\ gpc = "cards"
    /\ ci <= NCards(page)
    /\ ~Overflows(y, NextCardH)
    /\ cards' = Append(cards, Card(page, ci, y, NextCardH, NextCardLines,
                                   CardBase(page), CardLine(page)))
    /\ y' = y - (NextCardH + CardGap(page))
    /\ ci' = ci + 1
    /\ UNCHANGED <<page, gpc, step, pages, ends>>
    /\ UNCHANGED handlerVars /\ UNCHANGED wrapVars

\* the iteration that breaks: lines 187-188, 227-228, 264-265, 302-303
BreakLoop ==
    /\ Generating /\ gpc = "cards"
    /\ ci <= NCards(page)
    /\ Overflows(y, NextCardH)
    /\ ends' = Append(ends, [page |-> page, at |-> ci, y |-> y, h |-> NextCardH])
    /\ gpc' = AfterLoop(TRUE)
    /\ UNCHANGED <<page, step, ci, y, pages, cards>>
    /\ UNCHANGED handlerVars /\ UNCHANGED wrapVars

\* the list is exhausted
EndLoop ==
    /\ Generating /\ gpc = "cards"
    /\ ci > NCards(page)
    /\ ends' = Append(ends, [page |-> page, at |-> ci, y |-> y, h |-> 0])
    /\ gpc' = AfterLoop(FALSE)
    /\ UNCHANGED <<page, step, ci, y, pages, cards>>
    /\ UNCHANGED handlerVars /\ UNCHANGED wrapVars

\* c.showPage(): lines 151, 202, 239, 276, 314, 374
ShowPage ==
    /\ Generating /\ gpc = "show"
    /\ pages' = Append(pages, PageOrder[page])
    /\ page' = page + 1
    /\ gpc' = IF page = Len(PageOrder) THEN "save" ELSE "start"
    /\ UNCHANGED <<step, ci, y, cards, ends>>
    /\ UNCHANGED handlerVars /\ UNCHANGED wrapVars

\* lines 375-376: c.save() writes the file and generate_pdf returns
Save ==
    /\ Generating /\ gpc = "save"
    /\ gpc' = "done"
    /\ pc' = "read"
    /\ UNCHANGED <<req, exc, tmp, status, respBody>>
    /\ UNCHANGED <<page, step, ci, y, pages, cards, ends>>
    /\ UNCHANGED wrapVars

\* c.save() failing to write the file
SaveRaises ==
    /\ Generating /\ gpc = "save"
    /\ RaiseInTry("generate")
    /\ UNCHANGED <<req, tmp, status, respBody>>
    /\ UNCHANGED genVars /\ UNCHANGED wrapVars

\* ----------------------------------------------------------- wrap harness
Alphabet == {GLYPH, SP, NL}
RECURSIVE TextsUpTo(_)
TextsUpTo(n) ==
    IF n = 0 THEN {<<>>}
    ELSE LET S == TextsUpTo(n - 1)
         IN S \cup {Append(t, ch) : t \in {s \in S : Len(s) = n - 1}, ch \in Alphabet}
\* a few longer texts that mix an over-wide word with words sharing a line
LongTexts == {FromWords(<<4, 1, 1>>), FromWords(<<1, 1, 5, 2>>)}
Texts == TextsUpTo(MaxTextLen) \cup LongTexts
Suffixes == TextsUpTo(MaxSfxLen)
\* two and three glyphs of size 9 or 10 per line
WrapWidths == {130, 200}

InitWrap ==
    /\ req = [kind |-> "object", body |-> NoBody]
    /\ pc = "off" /\ exc = "none" /\ tmp = "none"
    /\ status = 0 /\ respBody = "none"
    /\ GenIdle
    /\ wtext \in Texts /\ wsfx \in Suffixes /\ wwidth \in WrapWidths
    /\ wpc = "input"
    /\ wlines = <<>> /\ wre = <<>> /\ wh = <<>>

\* the two card heights that depend on a wrapped text: lines 167-168, 185-186
ProblemH(t, mW) == problem_card_h(Len(problem_lines(t, mW)))
StatH(t, mW) == card_h(2, Len(simpleSplit(t, CardFont(2), mW)))

WrapText ==
    /\ wpc = "input"
    /\ wlines' = simpleSplit(wtext, ProblemFont, wwidth)
    /\ wh' = [pA |-> ProblemH(wtext, wwidth), pB |-> ProblemH(wtext \o wsfx, wwidth),
              sA |-> StatH(wtext, wwidth), sB |-> StatH(wtext \o wsfx, wwidth)]
    /\ wpc' = "wrapped"
    /\ UNCHANGED <<wtext, wsfx, wwidth, wre>>
    /\ UNCHANGED handlerVars /\ UNCHANGED genVars

ReWrap ==
    /\ wpc = "wrapped"
    /\ wre' = [i \in 1..Len(wlines) |-> simpleSplit(wlines[i], ProblemFont, wwidth)]
    /\ wpc' = "rewrapped"
    /\ UNCHANGED <<wtext, wsfx, wwidth, wlines, wh>>
    /\ UNCHANGED handlerVars /\ UNCHANGED genVars

\* --------------------------------------------------------- specifications
Next ==
    \/ Parse \/ ParseRaises \/ Reject \/ RejectRaises \/ CreateTemp
    \/ PageStart \/ FixedStep \/ DrawName \/ DrawNameRaises \/ ProblemCard
    \/ DrawCard \/ BreakLoop \/ EndLoop \/ ShowPage \/ Save \/ SaveRaises
    \/ ReadBack \/ ReadRaises \/ Respond \/ RespondRaises \/ Finally

Spec == Init /\ [][Next]_vars

NextWrap == WrapText \/ ReWrap

SpecWrap == InitWrap /\ [][NextWrap]_vars

Terminal == pc \in {"returned", "raised"}

\* ================================================================= claims
Required == {"name", "email", "field", "problem"}
IsEmpty(v) == v.kind = "absent" \/ (v.kind = "str" /\ v.val = <<>>)
SomeRequiredEmpty == req.kind = "object" /\ \E k \in Required : IsEmpty(req.body[k])
NoRequiredEmpty == req.kind = "object" /\ \A k \in Required : ~IsEmpty(req.body[k])
AllStrings == req.kind = "object" /\ \A k \in Required : req.body[k].kind = "str"

\* C1: a JSON object with one of name, email, field, problem absent or empty
\* is answered with 400 and the body {"error": "Missing required fields"}
\* (unless the socket write itself fails) and no PDF is generated; a request
\* whose four required fields are non-empty is never answered with 400,
\* whatever website is.
C1_MissingFieldsRejected ==
    /\ SomeRequiredEmpty =>
          /\ status \in {0, 400}
          /\ tmp = "none" /\ page = 0 /\ pages = <<>> /\ cards = <<>>
          /\ pc = "returned" => (status = 400 /\ respBody = "error")
          /\ pc = "raised" => exc = "write"
    /\ NoRequiredEmpty => status # 400 /\ respBody # "error"

C1_Witness ==
    /\ SomeRequiredEmpty /\ ~IsEmpty(req.body["website"])
    /\ pc = "returned" /\ status = 400 /\ respBody = "error"

SixPages == <<"cover", "problem", "opportunities", "roadmap", "why_us", "cta">>

\* C2: when generate_pdf returns, showPage has run exactly six times, in the
\* order cover, problem, opportunities, roadmap, why-us, call-to-action; the
\* pages emitted so far are always a prefix of that order; and with string
\* inputs nothing raises before the sixth page, however many cards a page
\* had to drop.
C2_SixPages ==
    /\ Len(pages) <= 6
    /\ \A i \in 1..Len(pages) : pages[i] = SixPages[i]
    /\ gpc = "done" => pages = SixPages
    /\ pc \in {"read", "respond"} => pages = SixPages
    /\ status = 200 => pages = SixPages
    /\ (AllStrings /\ exc = "generate") => pages = SixPages

C2_Witness ==
    /\ gpc = "done" /\ pages = SixPages
    /\ \E e \in 1..Len(ends) : ends[e].page = 2 /\ ends[e].at = 1
    /\ \E e \in 1..Len(ends) : ends[e].page = 3 /\ ends[e].at = 3

\* C3: once do_POST has exited, a temporary file it created has been
\* removed, whether it returned or an exception left the try block; on the
\* 400 path no temporary file is ever created.
C3_TempRemoved ==
    /\ Terminal => tmp # "exists"
    /\ (Terminal /\ NoRequiredEmpty) => tmp = "removed"
    /\ SomeRequiredEmpty => tmp = "none"

C3_Witness == pc = "raised" /\ exc = "generate" /\ tmp = "removed"

\* the cards of page 2 and the cursor the problem card leaves behind
StatsDone == \E e \in 1..Len(ends) : ends[e].page = 2
StatsDrawn == Cardinality({i \in 1..Len(cards) : cards[i].page = 2 /\ cards[i].idx >= 1})
ProblemDrawn == \E i \in 1..Len(cards) : cards[i].idx = 0
AfterProblem ==
    LET c == cards[CHOOSE i \in 1..Len(cards) : cards[i].idx = 0]
    IN c.top - c.h - 14 * U

\* C4 as stated: less than 60 points left by the problem card means no
\* statistic card, 61 points or more left means at least one.  (The cursor
\* is always a whole number of points plus 1/27, so exactly 61 is taken as
\* the least cursor above 60.)
C4_Original ==
    (StatsDone /\ ProblemDrawn) =>
        /\ AfterProblem < 60 * U => StatsDrawn = 0
        /\ AfterProblem >= 61 * U => StatsDrawn >= 1

\* C4 amended: the boundary is 124 points, the 64 points of the first
\* statistic card on top of the 60-point floor: below it no statistic card
\* is drawn, from it on at least one.
C4_Boundary ==
    (StatsDone /\ ProblemDrawn) =>
        /\ AfterProblem < 124 * U => StatsDrawn = 0
        /\ AfterProblem >= 124 * U => StatsDrawn >= 1

C4_Witness ==
    /\ StatsDone /\ ProblemDrawn
    /\ AfterProblem >= 61 * U /\ AfterProblem < 124 * U /\ StatsDrawn = 0

LoopCards(p) == {i \in 1..Len(cards) : cards[i].page = p /\ cards[i].idx >= 1}
DrawnIdx(p) == {cards[i].idx : i \in LoopCards(p)}

\* chrome and padding of a loop card plus its lines, as the source adds them
FullHeight(p, n) ==
    (CASE p = 2 -> 38 + n * 12 + 14
       [] p = 3 -> 34 + n * 11 + 10
       [] p = 4 -> 18 + 22 + 14 + n * 11 + 18
       [] p = 5 -> 30 + n * 11 + 10) * U

\* C5: in every card loop the cards drawn are a prefix of the page's list;
\* each drawn card ends at or above 60 and has its full height; the loop
\* stops at the first card that would end below 60 and draws nothing after
\* it; and no page is started for the cards left out.
C5_Truncation ==
    /\ \A i \in 1..Len(cards) : cards[i].idx >= 1 =>
          /\ cards[i].top - cards[i].h >= 60 * U
          /\ cards[i].h = FullHeight(cards[i].page, cards[i].n)
    /\ (gpc = "cards" /\ ci >= 2) =>
          cards[Len(cards)].n = DescLines(page, ci - 1, Get("field").val)
    /\ \A p \in 2..5 : DrawnIdx(p) = 1..Cardinality(LoopCards(p))
    /\ \A e \in 1..Len(ends) :
          /\ DrawnIdx(ends[e].page) = 1..(ends[e].at - 1)
          /\ ends[e].at <= NCards(ends[e].page) => ends[e].y - ends[e].h < 60 * U
          /\ ends[e].page = e + 1
    /\ Generating /\ gpc # "save" => Len(pages) = page - 1

C5_Witness ==
    /\ Len(pages) = 6
    /\ \E e \in 1..Len(ends) : ends[e].page = 3 /\ ends[e].at = 3
    /\ DrawnIdx(3) = {1, 2}
    /\ DrawnIdx(5) = 1..5

\* C6: when generate_pdf raises after validation has passed, do_POST has sent
\* a status line and a JSON body by the time it exits.
C6_FailureReported ==
    (pc = "raised" /\ exc = "generate") => (status # 0 /\ respBody # "none")

\* C7 as stated: a longer text never gets a lower card than a shorter one.
C7_Original ==
    wpc = "wrapped" =>
        \A t \in Texts : Len(t) <= Len(wtext) =>
            /\ ProblemH(t, wwidth) <= wh.pA
            /\ StatH(t, wwidth) <= wh.sA

\* C7 amended: a text extended at its end never gets a lower card; the card
\* height is non-decreasing along extensions of a text, not in its length.
C7_Extension ==
    wpc # "input" /\ wpc # "off" => (wh.pA <= wh.pB /\ wh.sA <= wh.sB)

C7_Witness ==
    /\ wpc = "wrapped" /\ wsfx # <<>>
    /\ wh.pA < wh.pB /\ wh.sA < wh.sB
    /\ \E k \in 1..Len(wtext) : wtext[k] = NL

\* C8: every line the wrap produces, wrapped again with the same font, size
\* and width, comes back as that one line, so the re-wrapped sequence is the
\* sequence itself, a line made of one over-wide word included.
C8_Idempotent ==
    wpc = "rewrapped" =>
        /\ Len(wre) = Len(wlines)
        /\ \A i \in 1..Len(wlines) : wre[i] = <<wlines[i]>>

C8_Witness ==
    /\ wpc = "rewrapped" /\ Len(wlines) >= 2
    /\ \E i \in 1..Len(wlines) : Len(wlines[i]) * 60 > wwidth
    /\ \E i \in 1..Len(wlines) : \E k \in 1..Len(wlines[i]) : wlines[i][k] = SP

\* C9: every baseline of a card's body text lies strictly between the
\* card's bottom edge and its top edge, and there is one per wrapped line.
C9_TextInsideCard ==
    \A i \in 1..Len(cards) :
        /\ cards[i].n >= 1
        /\ Cardinality(cards[i].baselines) = cards[i].n
        /\ \A b \in cards[i].baselines :
              cards[i].top - cards[i].h < b /\ b < cards[i].top

C9_Witness ==
    /\ \E i \in 1..Len(cards) : cards[i].idx = 0 /\ cards[i].n >= 30
    /\ \E i \in 1..Len(cards) : cards[i].page = 3 /\ cards[i].n >= 30
    /\ \E i \in 1..Len(cards) : cards[i].page = 4
    /\ \E i \in 1..Len(cards) : cards[i].page = 5

\* C10: within a page the cursor never goes up: every assignment after the
\* one that starts the page makes it strictly smaller; it only goes up when
\* the next page starts.
C10_CursorDescends ==
    [][/\ (page' = page /\ gpc \notin {"idle", "start"}) =>
            /\ y' <= y
            /\ (step' # step \/ cards' # cards) => y' < y
       /\ (gpc = "start" /\ gpc' = "fixed") => y' > y]_vars

C10_Witness ==
    /\ page = 6 /\ gpc = "show" /\ step = 8
    /\ y < 683 * U /\ Len(cards) >= 1

====
